---- MODULE Spec2Model ----
(***************************************************************************)
(* A model of lcm_mimic.py: one straight-line pipeline that segments a    *)
(* paragraph, embeds the sentences, builds a relation graph over shared    *)
(* nouns, flags "because" sentences, stores the paragraph in a one-entry   *)
(* memory, quantizes the embeddings and assembles the structured output.   *)
(*                                                                         *)
(* Texts are tuples of one-character strings, so that strip(), lower(),    *)
(* `in` and the segmentation act on characters.  The empty text is <<>>.   *)
(* spaCy and the sentence transformer are outside the repository: the      *)
(* segmenter is any cut of the text at whitespace, the tagger is one of    *)
(* two fixed lexicons, the encoder returns rows of a bounded grid.         *)
(***************************************************************************)
EXTENDS Integers, Sequences, FiniteSets, TLC

VARIABLES
    pc,                    \* the section of the script that runs next
    err,                   \* the exception that ended the run, or "none"
    lexicon,               \* which tagging model nlp was loaded with (line 25)
    paragraph,             \* paragraph (lines 34-39)
    sentences,             \* sentences (line 45)
    sentence_embeddings,   \* rows of numerators over GridDen (line 55)
    shape,                 \* sentence_embeddings.shape (line 58)
    G,                     \* [nodes: sequence, adj: node -> sequence of neighbours]
    i, j,                  \* the loop indices of lines 70-71
    cause_effect_pairs,    \* line 87
    memory_store,          \* the dict of line 103: a function on the keys it holds
    quantized_embeddings,  \* line 116
    final_structured_output,  \* <<>> until line 135 binds it, then <<the dict>>
    mem_at_start           \* history: memory_store as the run found it

vars == <<pc, err, lexicon, paragraph, sentences, sentence_embeddings, shape, G,
          i, j, cause_effect_pairs, memory_store, quantized_embeddings,
          final_structured_output, mem_at_start>>

----------------------------------------------------------------------------
(* Bounds of the model. *)

\* doc.sents yields at most this many spans
MaxSents == 3
\* the encoder's dimension D ranges over 1..MaxD
MaxD == 11
\* an embedding component is n / GridDen, n in -GridSpan*GridDen .. GridSpan*GridDen
GridDen == 4
\* components range over [-GridSpan, GridSpan], beyond the nominal [-1, 1] of line 118
GridSpan == 2
\* the encoder's rows are drawn from this many different offsets into the grid
NumSeeds == 3

----------------------------------------------------------------------------
(* Program constants. *)

\* 127.5 = ScaleNum / ScaleDen (line 119)
ScaleNum == 255
ScaleDen == 2
\* np.clip(scaled, 0, 255) (line 120)
ClipLo == 0
ClipHi == 255
\* np.uint8 holds values modulo 2^8 (line 120)
Uint8Mod == 256
\* quantized_embeddings[0][:10] (line 140)
PreviewLen == 10

memory_key == <<"p", "a", "r", "a", "g", "r", "a", "p", "h", "_",
                "c", "o", "n", "t", "e", "x", "t">>
BECAUSE == <<"b", "e", "c", "a", "u", "s", "e">>

----------------------------------------------------------------------------
(* Python's str operations on texts. *)

Min(a, b) == IF a < b THEN a ELSE b

IsSpace(c) == c \in {" ", "\n", "\t"}

UpperCase == <<"A", "B", "C", "D", "E", "F", "G", "H", "I", "J", "K", "L", "M",
               "N", "O", "P", "Q", "R", "S", "T", "U", "V", "W", "X", "Y", "Z">>
LowerCase == <<"a", "b", "c", "d", "e", "f", "g", "h", "i", "j", "k", "l", "m",
               "n", "o", "p", "q", "r", "s", "t", "u", "v", "w", "x", "y", "z">>

LowerChar(c) ==
    IF \E k \in 1..Len(UpperCase) : UpperCase[k] = c
    THEN LowerCase[CHOOSE k \in 1..Len(UpperCase) : UpperCase[k] = c]
    ELSE c

\* s.lower()
Lower(s) == [k \in 1..Len(s) |-> LowerChar(s[k])]

\* sub in s
Contains(sub, s) ==
    \E o \in 0..(Len(s) - Len(sub)) :
        \A k \in 1..Len(sub) : s[o + k] = sub[k]

RECURSIVE LStrip(_)
LStrip(s) == IF s # <<>> /\ IsSpace(Head(s)) THEN LStrip(Tail(s)) ELSE s

RECURSIVE RStrip(_)
RStrip(s) ==
    IF s # <<>> /\ IsSpace(s[Len(s)]) THEN RStrip(SubSeq(s, 1, Len(s) - 1)) ELSE s

\* s.strip()
Strip(s) == RStrip(LStrip(s))

\* s.split(): the maximal runs of non-whitespace characters, in order
RECURSIVE SplitFrom(_, _)
SplitFrom(s, cur) ==
    IF s = <<>> THEN (IF cur = <<>> THEN <<>> ELSE <<cur>>)
    ELSE IF IsSpace(Head(s))
         THEN (IF cur = <<>> THEN <<>> ELSE <<cur>>) \o SplitFrom(Tail(s), <<>>)
         ELSE SplitFrom(Tail(s), Append(cur, Head(s)))

Words(s) == SplitFrom(s, <<>>)

----------------------------------------------------------------------------
(* The inputs: the paragraphs a run may be given. *)

Paragraphs == {
    <<>>,
    <<" ", "\n">>,
    <<"\n", "C", "a", "t", "s", " ", "o", "n", " ", "m", "a", "t", "s", ".", " ",
      "S", "o", "f", "t", " ", "m", "a", "t", "s", ".", " ",
      "M", "a", "t", "s", " ", "n", "a", "p", ".", "\n">>,
    <<"I", "t", " ", "f", "e", "l", "l", " ", "B", "e", "c", "a", "u", "s", "e", " ",
      "c", "a", "t", "s", " ", " ", "b", "e", "c", "a", "u", "s", "E", " ",
      "c", "a", "u", "s">> }

----------------------------------------------------------------------------
(* nlp: the tagger (lines 25, 73-74).  A token is [lemma, pos]; a text is   *)
(* tokenised word by word, each word looked up in the loaded lexicon.      *)

Tok(lemma, pos) == [lemma |-> lemma, pos |-> pos]

Dot == Tok(<<".">>, "PUNCT")

LexiconA(w) ==
    CASE w = <<"C", "a", "t", "s">>      -> <<Tok(<<"c", "a", "t">>, "NOUN")>>
      [] w = <<"c", "a", "t", "s">>      -> <<Tok(<<"c", "a", "t">>, "NOUN")>>
      [] w = <<"m", "a", "t", "s", ".">> -> <<Tok(<<"m", "a", "t">>, "NOUN"), Dot>>
      [] w = <<"M", "a", "t", "s">>      -> <<Tok(<<"M", "a", "t">>, "NOUN")>>
      [] w = <<"S", "o", "f", "t">>      -> <<Tok(<<"s", "o", "f", "t">>, "ADJ")>>
      [] w = <<"n", "a", "p", ".">>      -> <<Tok(<<"n", "a", "p">>, "VERB"), Dot>>
      [] w = <<"c", "a", "u", "s">>      -> <<Tok(<<"c", "a", "u", "s">>, "NOUN")>>
      [] OTHER                           -> <<Tok(w, "X")>>

LexiconB(w) ==
    CASE w = <<"C", "a", "t", "s">>      -> <<Tok(<<"C", "a", "t", "s">>, "PROPN")>>
      [] w = <<"c", "a", "t", "s">>      -> <<Tok(<<"c", "a", "t">>, "NOUN")>>
      [] w = <<"m", "a", "t", "s", ".">> -> <<Tok(<<"m", "a", "t">>, "NOUN"), Dot>>
      [] w = <<"M", "a", "t", "s">>      -> <<Tok(<<"M", "a", "t", "s">>, "PROPN")>>
      [] w = <<"S", "o", "f", "t">>      -> <<Tok(<<"S", "o", "f", "t">>, "NOUN")>>
      [] w = <<"n", "a", "p", ".">>      -> <<Tok(<<"n", "a", "p">>, "NOUN"), Dot>>
      [] w = <<"c", "a", "u", "s">>      -> <<Tok(<<"C", "a", "t">>, "NOUN")>>
      [] OTHER                           -> <<Tok(w, "X")>>

Lexicons == {"A", "B"}

RECURSIVE TagWords(_, _)
TagWords(lex, ws) ==
    IF ws = <<>> THEN <<>>
    ELSE (IF lex = "A" THEN LexiconA(Head(ws)) ELSE LexiconB(Head(ws)))
         \o TagWords(lex, Tail(ws))

\* nlp(text), as the token sequence lines 73-74 iterate over
Tokens(lex, text) == TagWords(lex, Words(text))

\* {token.lemma_.lower() for token in nlp(text) if token.pos_ == "NOUN"}
Nouns(lex, text) ==
    LET toks == Tokens(lex, text)
    IN  {Lower(toks[k].lemma) : k \in {m \in 1..Len(toks) : toks[m].pos = "NOUN"}}

----------------------------------------------------------------------------
(* nlp: the segmenter (lines 44-45).  doc.sents cuts the text after         *)
(* whitespace characters into at most MaxSents consecutive spans.         *)

CutPoints(text) == {k \in 1..(Len(text) - 1) : IsSpace(text[k])}

CutSets(text) == {c \in SUBSET CutPoints(text) : Cardinality(c) < MaxSents}

RECURSIVE SpansFrom(_, _, _)
SpansFrom(text, start, cuts) ==
    IF start > Len(text) THEN <<>>
    ELSE LET later == {c \in cuts : c >= start}
             stop  == IF later = {} THEN Len(text)
                      ELSE CHOOSE c \in later : \A d \in later : c <= d
         IN  <<SubSeq(text, start, stop)>> \o SpansFrom(text, stop + 1, cuts)

\* sent.text: the span without the whitespace that trails its last token
SpanText(span) == RStrip(span)

NonBlank(t) == Strip(t) # <<>>

RECURSIVE SpanTexts(_)
SpanTexts(spans) ==
    IF spans = <<>> THEN <<>> ELSE <<SpanText(Head(spans))>> \o SpanTexts(Tail(spans))

\* [sent.text for sent in doc.sents if sent.text.strip()]
SentenceList(spans) == SelectSeq(SpanTexts(spans), NonBlank)

----------------------------------------------------------------------------
(* model.encode (line 55): n rows of D components, or np.asarray([]).      *)

GridLo == 0 - GridSpan * GridDen
GridCount == 2 * GridSpan * GridDen + 1
Components == GridLo..(GridLo + GridCount - 1)

EncoderRow(seed, s, D) ==
    [k \in 1..D |-> GridLo + ((seed + (s - 1) * GridDen + (k - 1) * (GridDen + 1)) % GridCount)]

Encode(sents, D, seed) == [s \in 1..Len(sents) |-> EncoderRow(seed, s, D)]

\* ndarray.shape: (0,) for np.asarray([]), (n, D) otherwise
ShapeOf(rows) == IF rows = <<>> THEN <<0>> ELSE <<Len(rows), Len(rows[1])>>

----------------------------------------------------------------------------
(* networkx.Graph as the script uses it: nodes in insertion order, each    *)
(* with its text attribute and its neighbours in insertion order (dicts).  *)

Has(seq, x) == \E k \in 1..Len(seq) : seq[k] = x

EmptyDict == [x \in {} |-> <<>>]

\* d[k] = v
DictSet(d, k, v) == [x \in (DOMAIN d) \cup {k} |-> IF x = k THEN v ELSE d[x]]

\* nx.Graph()
NewGraph == [nodes |-> <<>>, text |-> EmptyDict, adj |-> EmptyDict]

\* G.add_node(n, text=s)
AddNode(g, n, s) ==
    [nodes |-> IF Has(g.nodes, n) THEN g.nodes ELSE Append(g.nodes, n),
     text  |-> DictSet(g.text, n, s),
     adj   |-> IF Has(g.nodes, n) THEN g.adj ELSE DictSet(g.adj, n, <<>>)]

\* adj[u][v] = {}: a new key goes last, an old key keeps its place
Link(g, u, v) ==
    [g EXCEPT !.adj = [@ EXCEPT ![u] = IF Has(@, v) THEN @ ELSE Append(@, v)]]

\* G.add_edge(u, v), both nodes being in G already
AddEdge(g, u, v) == Link(Link(g, u, v), v, u)

\* for i, s in enumerate(sentences): G.add_node(i, text=s)
RECURSIVE AddNodes(_, _, _)
AddNodes(g, sents, k) ==
    IF k > Len(sents) THEN g
    ELSE AddNodes(AddNode(g, k - 1, sents[k]), sents, k + 1)

\* one node's share of G.edges: its neighbours not yet seen, in order
RECURSIVE EdgesOfNode(_, _, _)
EdgesOfNode(n, nbrs, seen) ==
    IF nbrs = <<>> THEN <<>>
    ELSE (IF Head(nbrs) \in seen THEN <<>> ELSE <<(<<n, Head(nbrs)>>)>>)
         \o EdgesOfNode(n, Tail(nbrs), seen)

RECURSIVE EdgesFrom(_, _, _)
EdgesFrom(g, k, seen) ==
    IF k > Len(g.nodes) THEN <<>>
    ELSE EdgesOfNode(g.nodes[k], g.adj[g.nodes[k]], seen)
         \o EdgesFrom(g, k + 1, seen \cup {g.nodes[k]})

\* list(G.edges)
Edges(g) == EdgesFrom(g, 1, {})

----------------------------------------------------------------------------
(* The relation graph loop (lines 70-77).                                  *)

\* range(i, len(sentences)): every sentence is also paired with itself
InnerStartAtSelf(a) == a

\* range(i+1, len(sentences)) starts at
InnerStart(a) == a + 1

\* nouns_i.union(nouns_j): any noun at all joins the pair
SharesNounUnion(nouns_i, nouns_j) == (nouns_i \cup nouns_j) # {}

\* nouns_i.intersection(nouns_j), taken as a truth value
SharesNoun(nouns_i, nouns_j) == (nouns_i \cap nouns_j) # {}

\* nouns_j extracted from sentences[i] as well
PairBodySameSentence(g, lex, sents, a, b) ==
    LET nouns_i == Nouns(lex, sents[a + 1])
        nouns_j == Nouns(lex, sents[a + 1])
    IN  IF SharesNoun(nouns_i, nouns_j) THEN AddEdge(g, a, b) ELSE g

\* the body of the inner loop for the pair (a, b)
PairBody(g, lex, sents, a, b) ==
    LET nouns_i == Nouns(lex, sents[a + 1])
        nouns_j == Nouns(lex, sents[b + 1])
    IN  IF SharesNoun(nouns_i, nouns_j) THEN AddEdge(g, a, b) ELSE g

----------------------------------------------------------------------------
(* Pattern detection (lines 87-90).                                        *)

\* "because" in s: the match without lower()
HasCauseIndicatorCased(s) == Contains(BECAUSE, s)

\* "because" in s.lower()
HasCauseIndicator(s) == Contains(BECAUSE, Lower(s))

RECURSIVE CauseEffectFrom(_, _)
CauseEffectFrom(sents, k) ==
    IF k > Len(sents) THEN <<>>
    ELSE (IF HasCauseIndicator(sents[k]) THEN <<(<<k - 1, sents[k]>>)>> ELSE <<>>)
         \o CauseEffectFrom(sents, k + 1)

CauseEffectPairs(sents) == CauseEffectFrom(sents, 1)

----------------------------------------------------------------------------
(* The context memory (lines 103-105, 139).                                *)

\* memory_store.setdefault(memory_key, paragraph.strip()) on the dict as found
StoreIfAbsent(store, text) ==
    IF memory_key \in DOMAIN store THEN store ELSE DictSet(store, memory_key, text)

\* memory_store = {}; memory_store[memory_key] = paragraph.strip()
StoreParagraph(store, text) == DictSet(EmptyDict, memory_key, text)

\* memory_store.get(key, "")
Fetch(store, key) == IF key \in DOMAIN store THEN store[key] ELSE <<>>

----------------------------------------------------------------------------
(* Quantization (lines 116-123).  A component is the numerator n of        *)
(* n / GridDen; scaled values are fractions over ScaledDen.                *)

ScaledDen == ScaleDen * GridDen

\* 127.5 * (v + 1.0), as a numerator over ScaledDen
Scaled(n) == ScaleNum * (n + GridDen)

\* np.minimum(x, hi): the lower bound forgotten
ClipUpperOnly(x, den, lo, hi) == IF x > hi * den THEN hi * den ELSE x

\* np.clip(x, lo, hi), x a numerator over den
Clip(x, den, lo, hi) ==
    IF x < lo * den THEN lo * den
    ELSE IF x > hi * den THEN hi * den
    ELSE x

\* .astype(np.uint8): the fraction is cut towards zero and kept modulo 2^8
AsUint8(x, den) ==
    (IF x >= 0 THEN x \div den ELSE 0 - ((0 - x) \div den)) % Uint8Mod

\* np.clip(scaled.astype(np.uint8), 0, 255): the cast before the clip
QuantizeCastFirst(n) == Clip(AsUint8(Scaled(n), ScaledDen), 1, ClipLo, ClipHi)

Quantize(n) == AsUint8(Clip(Scaled(n), ScaledDen, ClipLo, ClipHi), ScaledDen)

QuantizeRow(vec) == [k \in 1..Len(vec) |-> Quantize(vec[k])]

QuantizeAll(rows) == [s \in 1..Len(rows) |-> QuantizeRow(rows[s])]

----------------------------------------------------------------------------
(* Output generation (lines 135-141).                                      *)

\* seq[:stop]
SliceTo(seq, stop) == SubSeq(seq, 1, Min(stop, Len(seq)))

RECURSIVE Seconds(_)
Seconds(pairs) ==
    IF pairs = <<>> THEN <<>> ELSE <<Head(pairs)[2]>> \o Seconds(Tail(pairs))

\* quantized_embeddings[-1][:10].tolist(): the last sentence's row
PreviewOfLast(q) == SliceTo(q[Len(q)], PreviewLen)

\* quantized_embeddings[0][:10].tolist()
Preview(q) == SliceTo(q[1], PreviewLen)

StructuredOutput(sents, pairs, g, store, q) ==
    [segmented_sentences          |-> sents,
     cause_effect_sentences       |-> Seconds(pairs),
     graph_edges                  |-> Edges(g),
     memory_reference             |-> Fetch(store, memory_key),
     quantized_embeddings_preview |-> Preview(q)]

----------------------------------------------------------------------------
(* The script as a state machine: one action per section, the pair loop    *)
(* of lines 70-77 one iteration at a time.                                 *)

NoGraph == NewGraph

\* what a run starts from: nothing of lines 44-141 is bound yet
RunLocalsFresh ==
    /\ err' = "none"
    /\ sentences' = <<>>
    /\ sentence_embeddings' = <<>>
    /\ shape' = <<>>
    /\ G' = NoGraph
    /\ i' = 0
    /\ j' = 0
    /\ cause_effect_pairs' = <<>>
    /\ quantized_embeddings' = <<>>
    /\ final_structured_output' = <<>>

Init ==
    /\ pc = "segment"
    /\ err = "none"
    /\ lexicon \in Lexicons
    /\ paragraph \in Paragraphs
    /\ sentences = <<>>
    /\ sentence_embeddings = <<>>
    /\ shape = <<>>
    /\ G = NoGraph
    /\ i = 0
    /\ j = 0
    /\ cause_effect_pairs = <<>>
    /\ memory_store = EmptyDict
    /\ quantized_embeddings = <<>>
    /\ final_structured_output = <<>>
    /\ mem_at_start = EmptyDict

\* an exception leaves the script: nothing after the raising line runs
Raise(e) ==
    /\ pc' = "failed"
    /\ err' = e

\* lines 44-45
Segment ==
    /\ pc = "segment"
    /\ \E cuts \in CutSets(Strip(paragraph)) :
           sentences' = SentenceList(SpansFrom(Strip(paragraph), 1, cuts))
    /\ pc' = "encode"
    /\ UNCHANGED <<err, lexicon, paragraph, sentence_embeddings, shape, G, i, j,
                   cause_effect_pairs, memory_store, quantized_embeddings,
                   final_structured_output, mem_at_start>>

\* line 44, nlp raising
SegmentFails ==
    /\ pc = "segment"
    /\ Raise("SegmentationFailure")
    /\ UNCHANGED <<lexicon, paragraph, sentences, sentence_embeddings, shape, G, i, j,
                   cause_effect_pairs, memory_store, quantized_embeddings,
                   final_structured_output, mem_at_start>>

\* line 55
EncodeSentences ==
    /\ pc = "encode"
    /\ \E D \in 1..MaxD, seed \in 0..(NumSeeds - 1) :
           sentence_embeddings' = Encode(sentences, D, seed)
    /\ pc' = "shape"
    /\ UNCHANGED <<err, lexicon, paragraph, sentences, shape, G, i, j,
                   cause_effect_pairs, memory_store, quantized_embeddings,
                   final_structured_output, mem_at_start>>

\* line 55, model.encode raising
EncodeFails ==
    /\ pc = "encode"
    /\ Raise("EncodingFailure")
    /\ UNCHANGED <<lexicon, paragraph, sentences, sentence_embeddings, shape, G, i, j,
                   cause_effect_pairs, memory_store, quantized_embeddings,
                   final_structured_output, mem_at_start>>

\* line 58: sentence_embeddings.shape[1]
PrintShape ==
    /\ pc = "shape"
    /\ shape' = ShapeOf(sentence_embeddings)
    /\ IF Len(ShapeOf(sentence_embeddings)) >= 2
       THEN pc' = "nodes" /\ err' = err
       ELSE Raise("IndexError")
    /\ UNCHANGED <<lexicon, paragraph, sentences, sentence_embeddings, G, i, j,
                   cause_effect_pairs, memory_store, quantized_embeddings,
                   final_structured_output, mem_at_start>>

\* lines 64-67
BuildNodes ==
    /\ pc = "nodes"
    /\ G' = AddNodes(NewGraph, sentences, 1)
    /\ i' = 0
    /\ pc' = "outer"
    /\ UNCHANGED <<err, lexicon, paragraph, sentences, sentence_embeddings, shape, j,
                   cause_effect_pairs, memory_store, quantized_embeddings,
                   final_structured_output, mem_at_start>>

\* line 70: the head of the outer loop
OuterLoop ==
    /\ pc = "outer"
    /\ IF i < Len(sentences)
       THEN j' = InnerStart(i) /\ pc' = "inner"
       ELSE j' = j /\ pc' = "patterns"
    /\ UNCHANGED <<err, lexicon, paragraph, sentences, sentence_embeddings, shape, G, i,
                   cause_effect_pairs, memory_store, quantized_embeddings,
                   final_structured_output, mem_at_start>>

\* lines 71-77: one iteration of the inner loop, or its end
InnerLoop ==
    /\ pc = "inner"
    /\ IF j < Len(sentences)
       THEN /\ G' = PairBody(G, lexicon, sentences, i, j)
            /\ j' = j + 1
            /\ i' = i
            /\ pc' = "inner"
       ELSE /\ G' = G
            /\ j' = j
            /\ i' = i + 1
            /\ pc' = "outer"
    /\ UNCHANGED <<err, lexicon, paragraph, sentences, sentence_embeddings, shape,
                   cause_effect_pairs, memory_store, quantized_embeddings,
                   final_structured_output, mem_at_start>>

\* lines 87-90
DetectPatterns ==
    /\ pc = "patterns"
    /\ cause_effect_pairs' = CauseEffectPairs(sentences)
    /\ pc' = "memory"
    /\ UNCHANGED <<err, lexicon, paragraph, sentences, sentence_embeddings, shape, G, i, j,
                   memory_store, quantized_embeddings, final_structured_output,
                   mem_at_start>>

\* lines 103-105
StoreMemory ==
    /\ pc = "memory"
    /\ memory_store' = StoreParagraph(memory_store, Strip(paragraph))
    /\ pc' = "quantize"
    /\ UNCHANGED <<err, lexicon, paragraph, sentences, sentence_embeddings, shape, G, i, j,
                   cause_effect_pairs, quantized_embeddings, final_structured_output,
                   mem_at_start>>

\* lines 116-123
Quantization ==
    /\ pc = "quantize"
    /\ quantized_embeddings' = QuantizeAll(sentence_embeddings)
    /\ pc' = "output"
    /\ UNCHANGED <<err, lexicon, paragraph, sentences, sentence_embeddings, shape, G, i, j,
                   cause_effect_pairs, memory_store, final_structured_output,
                   mem_at_start>>

\* lines 135-141: quantized_embeddings[0] raises on an empty array
AssembleOutput ==
    /\ pc = "output"
    /\ IF quantized_embeddings # <<>>
       THEN /\ final_structured_output' =
                   <<StructuredOutput(sentences, cause_effect_pairs, G, memory_store,
                                      quantized_embeddings)>>
            /\ pc' = "done"
            /\ err' = err
       ELSE /\ final_structured_output' = final_structured_output
            /\ Raise("IndexError")
    /\ UNCHANGED <<lexicon, paragraph, sentences, sentence_embeddings, shape, G, i, j,
                   cause_effect_pairs, memory_store, quantized_embeddings, mem_at_start>>

\* the script is run again in the same interpreter on another paragraph:
\* lines 44-141 rebind every name before reading it, memory_store is still bound
RunAgain ==
    /\ pc \in {"done", "failed"}
    /\ pc' = "segment"
    /\ paragraph' \in Paragraphs
    /\ RunLocalsFresh
    /\ mem_at_start' = memory_store
    /\ UNCHANGED <<lexicon, memory_store>>

Next ==
    \/ Segment
    \/ SegmentFails
    \/ EncodeSentences
    \/ EncodeFails
    \/ PrintShape
    \/ BuildNodes
    \/ OuterLoop
    \/ InnerLoop
    \/ DetectPatterns
    \/ StoreMemory
    \/ Quantization
    \/ AssembleOutput
    \/ RunAgain

Spec == Init /\ [][Next]_vars

----------------------------------------------------------------------------
(* The quantizer on its own: the script just before line 116, with one     *)
(* sentence whose embedding holds any two components of the grid.          *)

InitQuantizer ==
    /\ pc = "quantize"
    /\ err = "none"
    /\ lexicon \in Lexicons
    /\ paragraph \in {p \in Paragraphs : NonBlank(p)}
    /\ sentences = <<Strip(paragraph)>>
    /\ sentence_embeddings \in {<<(<<a, b>>)>> : a \in Components, b \in Components}
    /\ shape = <<1, 2>>
    /\ G = AddNodes(NewGraph, sentences, 1)
    /\ i = 1
    /\ j = 1
    /\ cause_effect_pairs = CauseEffectPairs(sentences)
    /\ memory_store = StoreParagraph(EmptyDict, Strip(paragraph))
    /\ quantized_embeddings = <<>>
    /\ final_structured_output = <<>>
    /\ mem_at_start = EmptyDict

NextQuantizer ==
    \/ Quantization
    \/ AssembleOutput

SpecQuantizer == InitQuantizer /\ [][NextQuantizer]_vars

----------------------------------------------------------------------------
(* Stages of a run. *)

GraphBuilt == pc \in {"patterns", "memory", "quantize", "output", "done"}
PatternsDone == pc \in {"memory", "quantize", "output", "done"}
MemoryStored == pc \in {"quantize", "output", "done"}
Quantized == pc \in {"output", "done"}

NumSentences == Len(sentences)
Indices == 0..(NumSentences - 1)
ConceptSet(a) == Nouns(lexicon, sentences[a + 1])
Adjacent(a, b) == a \in DOMAIN G.adj /\ Has(G.adj[a], b)

----------------------------------------------------------------------------
(* The relation graph. *)

\* C1: once the pair loop has ended, sentences a and b are adjacent in the
\* graph exactly when a # b and their concept sets intersect; at every moment
\* of the run the graph has no self-loop, an edge joins only sentences whose
\* concept sets intersect, and a sentence with an empty concept set has no
\* neighbour.
C1_EdgeIffSharedConcept ==
    /\ \A a \in DOMAIN G.adj :
           /\ ~Has(G.adj[a], a)
           /\ \A k \in 1..Len(G.adj[a]) :
                  /\ G.adj[a][k] \in Indices
                  /\ (ConceptSet(a) \cap ConceptSet(G.adj[a][k])) # {}
                  /\ Has(G.adj[G.adj[a][k]], a)
           /\ (ConceptSet(a) = {} => G.adj[a] = <<>>)
    /\ GraphBuilt =>
           \A a \in Indices : \A b \in Indices :
               Adjacent(a, b) <=> (a # b /\ (ConceptSet(a) \cap ConceptSet(b)) # {})

\* a finished graph where the first and the third sentence are joined, the
\* second has an empty concept set and is joined to neither
C1_Witness ==
    /\ GraphBuilt
    /\ NumSentences = 3
    /\ Adjacent(0, 2) /\ Adjacent(2, 0)
    /\ ConceptSet(1) = {}
    /\ ~Adjacent(0, 1) /\ ~Adjacent(1, 2)

\* C7: graph_edges of the output is a sequence of pairs (a, b) with
\* a < b < len(segmented_sentences), strictly ascending in lexicographic
\* order (hence free of duplicates), and it lists every adjacent pair: the
\* order in which the nested i/j loop added the edges.
C7_EdgesAscending ==
    pc = "done" =>
        LET out == final_structured_output[1]
            e   == out.graph_edges
            n   == Len(out.segmented_sentences)
        IN  /\ \A k \in 1..Len(e) : 0 <= e[k][1] /\ e[k][1] < e[k][2] /\ e[k][2] < n
            /\ \A k \in 1..(Len(e) - 1) :
                   \/ e[k][1] < e[k + 1][1]
                   \/ (e[k][1] = e[k + 1][1] /\ e[k][2] < e[k + 1][2])
            /\ \A a \in Indices : \A b \in Indices :
                   (a < b /\ Adjacent(a, b)) => Has(e, <<a, b>>)

\* an output with at least two edges, two of them from the same first sentence
C7_Witness ==
    /\ pc = "done"
    /\ LET e == final_structured_output[1].graph_edges
       IN  /\ Len(e) >= 2
           /\ \E k \in 1..(Len(e) - 1) : e[k][1] = e[k + 1][1]

\* The builder of the design note: the concept sets are extracted once into
\* a table indexed by sentence, and the pair loop reads the table.
ConceptCache(lex, sents) == [k \in 1..Len(sents) |-> Nouns(lex, sents[k])]

RECURSIVE CachedLoop(_, _, _, _)
CachedLoop(g, cache, a, b) ==
    IF a >= Len(cache) THEN g
    ELSE IF b >= Len(cache) THEN CachedLoop(g, cache, a + 1, a + 2)
    ELSE CachedLoop(IF (cache[a + 1] \cap cache[b + 1]) # {} THEN AddEdge(g, a, b) ELSE g,
                    cache, a, b + 1)

CachedGraph(lex, sents) ==
    CachedLoop(AddNodes(NewGraph, sents, 1), ConceptCache(lex, sents), 0, 1)

\* C10: the graph the script builds by extracting both concept sets inside
\* every pair iteration has the same edge sequence, and the same adjacency,
\* as the graph built from concept sets extracted once per sentence.
C10_CachedBuilderSameEdges ==
    GraphBuilt =>
        /\ Edges(G) = Edges(CachedGraph(lexicon, sentences))
        /\ G.adj = CachedGraph(lexicon, sentences).adj

\* three sentences, so that sentences were extracted again in later pairs,
\* and a graph with edges
C10_Witness ==
    /\ GraphBuilt
    /\ NumSentences >= 3
    /\ Len(Edges(G)) >= 2

----------------------------------------------------------------------------
(* The pattern detector. *)

\* C5: the marker list holds (a, sentence a) exactly for the sentences whose
\* lowercased text contains "because", in increasing order of a, each once,
\* with the sentence's own text; the output lists those texts in that order.
C5_MarkersAreBecauseSentences ==
    /\ PatternsDone =>
           /\ \A k \in 1..Len(cause_effect_pairs) :
                  /\ cause_effect_pairs[k][1] \in Indices
                  /\ cause_effect_pairs[k][2] = sentences[cause_effect_pairs[k][1] + 1]
           /\ \A k \in 1..(Len(cause_effect_pairs) - 1) :
                  cause_effect_pairs[k][1] < cause_effect_pairs[k + 1][1]
           /\ \A a \in Indices :
                  (\E k \in 1..Len(cause_effect_pairs) : cause_effect_pairs[k][1] = a)
                  <=> (\E o \in 0..(Len(sentences[a + 1]) - Len(BECAUSE)) :
                          \A m \in 1..Len(BECAUSE) :
                              LowerChar(sentences[a + 1][o + m]) = BECAUSE[m])
    /\ pc = "done" =>
           LET c == final_structured_output[1].cause_effect_sentences
           IN  /\ Len(c) = Len(cause_effect_pairs)
               /\ \A k \in 1..Len(c) : c[k] = cause_effect_pairs[k][2]

\* two markers, one of them a sentence that matches only once lowercased,
\* beside a sentence that is not flagged
C5_Witness ==
    /\ PatternsDone
    /\ Len(cause_effect_pairs) = 2
    /\ \E k \in 1..2 : ~Contains(BECAUSE, cause_effect_pairs[k][2])
    /\ NumSentences = 3

----------------------------------------------------------------------------
(* The quantizer. *)

\* the components of the embeddings with their quantized values
QuantizedPairs ==
    {<<sentence_embeddings[s][k], quantized_embeddings[s][k]>> :
        s \in 1..Len(quantized_embeddings), k \in 1..Len(quantized_embeddings[1])}

\* C3: quantization raises nothing and maps every component, in or out of
\* [-1, 1], to an integer of 0..255: -1.0 to 0, 1.0 to 255, 0.0 to 127 or
\* 128, every component below -1 to 0 and every component above 1 to 255.
C3_QuantizerRangeAndSaturation ==
    Quantized =>
        /\ err = "none"
        /\ Len(quantized_embeddings) = Len(sentence_embeddings)
        /\ \A s \in 1..Len(sentence_embeddings) :
               Len(quantized_embeddings[s]) = Len(sentence_embeddings[s])
        /\ \A p \in QuantizedPairs :
               /\ p[2] \in 0..255
               /\ (p[1] = 0 - GridDen => p[2] = 0)
               /\ (p[1] = GridDen => p[2] = 255)
               /\ (p[1] = 0 => p[2] \in {127, 128})
               /\ (p[1] < 0 - GridDen => p[2] = 0)
               /\ (p[1] > GridDen => p[2] = 255)

\* one embedding with a component below -1 and a component above 1
C3_Witness ==
    /\ Quantized
    /\ \E p \in QuantizedPairs : p[1] < 0 - GridDen /\ p[2] = 0
    /\ \E p \in QuantizedPairs : p[1] > GridDen /\ p[2] = 255

\* C4: quantization is monotonic: of two components v1 < v2, in or out of
\* [-1, 1], the first is quantized to a value no greater than the second's.
C4_QuantizerMonotonic ==
    Quantized =>
        \A p \in QuantizedPairs : \A q \in QuantizedPairs :
            p[1] < q[1] => p[2] <= q[2]

\* two components inside (-1, 1) that quantize to different values
C4_Witness ==
    /\ Quantized
    /\ \E p \in QuantizedPairs : \E q \in QuantizedPairs :
           /\ 0 - GridDen < p[1] /\ p[1] < q[1] /\ q[1] < GridDen
           /\ p[2] < q[2]

\* C8: the preview of the output is the first min(10, D) components of the
\* first sentence's quantized embedding, in order: 10 entries when D >= 10,
\* D entries when D < 10, each an integer of 0..255.
C8_PreviewFirstTen ==
    pc = "done" =>
        LET pv == final_structured_output[1].quantized_embeddings_preview
            D  == Len(sentence_embeddings[1])
        IN  /\ Len(pv) = (IF D >= 10 THEN 10 ELSE D)
            /\ \A k \in 1..Len(pv) :
                   /\ pv[k] = Quantize(sentence_embeddings[1][k])
                   /\ pv[k] \in 0..255

\* an output for several sentences whose embeddings have more than 10
\* components, the last sentence's differing from the first's
C8_Witness ==
    /\ pc = "done"
    /\ Len(sentence_embeddings[1]) > 10
    /\ NumSentences >= 2
    /\ quantized_embeddings[NumSentences] # quantized_embeddings[1]
    /\ Len(final_structured_output[1].quantized_embeddings_preview) = 10

----------------------------------------------------------------------------
(* The context memory. *)

OtherKey == <<"o", "t", "h", "e", "r">>

\* C6: the memory holds at most one entry; until a run stores, it is what
\* the run found; once a run has stored, fetching the key gives that run's
\* trimmed paragraph, whatever an earlier run stored, and the output's
\* memory_reference is that value; fetching a key the memory does not hold
\* gives the empty text.
C6_MemorySlotOverwrite ==
    /\ Cardinality(DOMAIN memory_store) <= 1
    /\ (~MemoryStored /\ pc # "failed") => memory_store = mem_at_start
    /\ MemoryStored => Fetch(memory_store, memory_key) = Strip(paragraph)
    /\ pc = "done" => final_structured_output[1].memory_reference = Strip(paragraph)
    /\ \A k \in {memory_key, OtherKey} \ DOMAIN memory_store :
           Fetch(memory_store, k) = <<>>

\* a run has stored its paragraph over the different paragraph of an earlier run
C6_Witness ==
    /\ MemoryStored
    /\ memory_key \in DOMAIN mem_at_start
    /\ mem_at_start[memory_key] # Strip(paragraph)
    /\ mem_at_start[memory_key] # <<>>
    /\ Fetch(memory_store, memory_key) = Strip(paragraph)

----------------------------------------------------------------------------
(* Empty input and failures. *)

CollaboratorFailed == err \in {"SegmentationFailure", "EncodingFailure"}

\* C2: when segmentation yields no sentence, the run does not fail, and the
\* output it produces has no sentences, no markers, no edges, an empty
\* preview, and the trimmed paragraph as memory_reference.
C2_EmptyInputCompletes ==
    (pc # "segment" /\ sentences = <<>> /\ ~CollaboratorFailed) =>
        /\ pc # "failed"
        /\ pc = "done" =>
               final_structured_output[1] =
                   [segmented_sentences          |-> <<>>,
                    cause_effect_sentences       |-> <<>>,
                    graph_edges                  |-> <<>>,
                    memory_reference             |-> Strip(paragraph),
                    quantized_embeddings_preview |-> <<>>]

\* C9: a run is all or nothing: it fails only when the segmenter or the
\* encoder failed, and then no output is produced, no graph is built and
\* the memory keeps what the run found in it; a run that ended otherwise
\* has produced the complete output.
C9_AllOrNothing ==
    /\ pc = "failed" =>
           /\ CollaboratorFailed
           /\ final_structured_output = <<>>
           /\ G = NoGraph
           /\ cause_effect_pairs = <<>>
           /\ quantized_embeddings = <<>>
           /\ memory_store = mem_at_start
    /\ pc = "done" =>
           /\ err = "none"
           /\ final_structured_output # <<>>

====
